---- MODULE Spec2Model ----
(***************************************************************************)
(* Model of src/executor/evaluate/evaluated.rs: the Evaluated enum, its    *)
(* PartialEq / PartialOrd implementations and the four arithmetic          *)
(* operators, together with the literal helpers literal_add ..             *)
(* literal_divide and literal_partial_cmp.                                 *)
(*                                                                         *)
(* Texts (Rust String / &str) are sequences of one-character strings.     *)
(* i64 is scaled down to the range I64_MIN .. I64_MAX so that overflow and *)
(* out-of-range parses are reachable with short texts.                     *)
(***************************************************************************)
EXTENDS Integers, Sequences, FiniteSets

VARIABLES
    lhs,              \* `self` of the last call
    rhs,              \* `other` of the last call
    op,               \* which method was called last
    out,              \* what the call produced (value, error, panic, bool, ordering)
    calls,            \* the typed-domain values the last call built: its clone_by and
                      \* arithmetic calls into data::Value, in order
    overflow_checks   \* build profile: TRUE = overflow-checks on (debug), FALSE = release

vars == <<lhs, rhs, op, out, calls, overflow_checks>>

\* Scaled-down i64::MAX; i64::MIN follows from it.
I64_MAX == 7
I64_MIN == -I64_MAX - 1

-----------------------------------------------------------------------------
(* Texts                                                                   *)

Digits == <<"0", "1", "2", "3", "4", "5", "6", "7", "8", "9">>

IsDigit(c) == \E i \in 1..10 : Digits[i] = c

DigitVal(c) == (CHOOSE i \in 1..10 : Digits[i] = c) - 1

\* Byte value of a character, for the lexicographic order of str / String.
CharCode(c) ==
    CASE c = "+" -> 43
      [] c = "-" -> 45
      [] c = "." -> 46
      [] IsDigit(c) -> 48 + DigitVal(c)
      [] c = "a" -> 97
      [] c = "b" -> 98

RECURSIVE StrCmp(_, _)
\* Ord for str: lexicographic by bytes, a proper prefix is Less.
StrCmp(a, b) ==
    IF a = <<>> /\ b = <<>> THEN "Equal"
    ELSE IF a = <<>> THEN "Less"
    ELSE IF b = <<>> THEN "Greater"
    ELSE IF CharCode(Head(a)) < CharCode(Head(b)) THEN "Less"
    ELSE IF CharCode(Head(a)) > CharCode(Head(b)) THEN "Greater"
    ELSE StrCmp(Tail(a), Tail(b))

IntCmp(a, b) == IF a < b THEN "Less" ELSE IF a > b THEN "Greater" ELSE "Equal"

\* Ordering::reverse
Reverse(o) == IF o = "Less" THEN "Greater" ELSE IF o = "Greater" THEN "Less" ELSE o

RECURSIVE Magnitude(_, _)
\* Accumulates the decimal digits of t onto acc.
Magnitude(t, acc) ==
    IF t = <<>> THEN acc ELSE Magnitude(Tail(t), acc * 10 + DigitVal(Head(t)))

AllDigits(t) == \A i \in 1..Len(t) : IsDigit(t[i])

\* str::parse::<i64>: an optional single sign, then one or more digits and
\* nothing else; a value outside the i64 range is an error.
ParseI64(t) ==
    LET signed == t # <<>> /\ Head(t) \in {"+", "-"}
        body   == IF signed THEN Tail(t) ELSE t
        neg    == signed /\ Head(t) = "-"
        n      == IF neg THEN -Magnitude(body, 0) ELSE Magnitude(body, 0)
    IN  IF body = <<>> \/ ~AllDigits(body) THEN [ok |-> FALSE, n |-> 0]
        ELSE IF n < I64_MIN \/ n > I64_MAX THEN [ok |-> FALSE, n |-> 0]
        ELSE [ok |-> TRUE, n |-> n]

RECURSIVE NatToString(_)
NatToString(n) ==
    IF n < 10 THEN <<Digits[n + 1]>>
    ELSE NatToString(n \div 10) \o <<Digits[(n % 10) + 1]>>

\* i64::to_string
to_string(n) == IF n < 0 THEN <<"-">> \o NatToString(-n) ELSE NatToString(n)

InRange(n) == I64_MIN <= n /\ n <= I64_MAX

\* Two's-complement wrap of n into the i64 range.
Wrap(n) == ((n - I64_MIN) % (I64_MAX - I64_MIN + 1)) + I64_MIN

Abs(n) == IF n < 0 THEN -n ELSE n

\* Rust integer `/` on a non-zero divisor: truncates toward zero.
TruncDiv(a, b) ==
    IF (a < 0) = (b < 0) THEN Abs(a) \div Abs(b) ELSE -(Abs(a) \div Abs(b))

-----------------------------------------------------------------------------
(* The two underlying domains and the five variants                        *)

\* Payloads share one record shape: dom says which domain the payload is of.
Payload(dom, kind, text, n) == [dom |-> dom, kind |-> kind, text |-> text, n |-> n]

\* sqlparser::ast::Value
Number(t)             == Payload("ast", "Number", t, 0)
SingleQuotedString(t) == Payload("ast", "SingleQuotedString", t, 0)
AstNull               == Payload("ast", "Null", <<>>, 0)

\* crate::data::Value
I64(n) == Payload("val", "I64", <<>>, n)
Str(t) == Payload("val", "Str", t, 0)

\* &str
Slice(t) == Payload("str", "str", t, 0)

NoPayload == Payload("none", "none", <<>>, 0)

\* enum Evaluated: tag is the variant, v its payload.
Evaluated(tag, v) == [tag |-> tag, v |-> v]

LiteralRef(a) == Evaluated("LiteralRef", a)
Literal(a)    == Evaluated("Literal", a)
StringRef(s)  == Evaluated("StringRef", Slice(s))
ValueRef(v)   == Evaluated("ValueRef", v)
Value(v)      == Evaluated("Value", v)

NoEvaluated == Evaluated("none", NoPayload)

\* Result<T> of a helper: Ok(v), Err(e), or the call panicked.
ROk(v)  == [kind |-> "Ok", v |-> v, err |-> ""]
RErr(e) == [kind |-> "Err", v |-> NoPayload, err |-> e]
RPanic  == [kind |-> "Panic", v |-> NoPayload, err |-> ""]

\* What a method of Evaluated produced.
Outcome(kind, val, err, b, ord) ==
    [kind |-> kind, val |-> val, err |-> err, b |-> b, ord |-> ord]

Ok(e)     == Outcome("Ok", e, "", FALSE, "")
Err(e)    == Outcome("Err", NoEvaluated, e, FALSE, "")
Panic     == Outcome("Panic", NoEvaluated, "", FALSE, "")
Bool(b)   == Outcome("Bool", NoEvaluated, "", b, "")
Some(o)   == Outcome("Some", NoEvaluated, "", FALSE, o)
None      == Outcome("None", NoEvaluated, "", FALSE, "")
NotCalled == Outcome("NotCalled", NoEvaluated, "", FALSE, "")

\* A method's outcome together with the typed-domain calls it made.
Ran(o, cs) == [out |-> o, calls |-> cs]

\* One delegated call into crate::data::Value.
TypedCall(fn, self, arg) == [fn |-> fn, self |-> self, arg |-> arg]

-----------------------------------------------------------------------------
(* The typed domain, crate::data::Value: the capability set this module    *)
(* calls (equality, partial order, clone_by, add/subtract/multiply/divide) *)

\* Value == Value
Value_eq(l, r) == l = r

\* Value == AstValue (impl PartialEq<AstValue> for Value)
Value_eq_ast(v, a) ==
    CASE v.kind = "I64" /\ a.kind = "Number" ->
            ParseI64(a.text).ok /\ ParseI64(a.text).n = v.n
      [] v.kind = "Str" /\ a.kind = "SingleQuotedString" -> v.text = a.text
      [] OTHER -> FALSE

\* Value::partial_cmp(&Value): "None" when the types differ.
Value_partial_cmp(l, r) ==
    CASE l.kind = "I64" /\ r.kind = "I64" -> IntCmp(l.n, r.n)
      [] l.kind = "Str" /\ r.kind = "Str" -> StrCmp(l.text, r.text)
      [] OTHER -> "None"

\* Value::partial_cmp(&AstValue) (impl PartialOrd<AstValue> for Value)
Value_partial_cmp_ast(v, a) ==
    CASE v.kind = "I64" /\ a.kind = "Number" ->
            IF ParseI64(a.text).ok THEN IntCmp(v.n, ParseI64(a.text).n) ELSE "None"
      [] v.kind = "Str" /\ a.kind = "SingleQuotedString" -> StrCmp(v.text, a.text)
      [] OTHER -> "None"

\* Value::clone_by(&AstValue): a value of self's type built from the literal.
clone_by(v, a) ==
    CASE v.kind = "I64" /\ a.kind = "Number" ->
            IF ParseI64(a.text).ok THEN ROk(I64(ParseI64(a.text).n))
            ELSE RErr("FailedToParseNumber")
      [] v.kind = "Str" /\ a.kind = "SingleQuotedString" -> ROk(Str(a.text))
      [] OTHER -> RErr("LiteralNotSupported")

\* The exact integer result of operator fn, before any range check.
Exact(fn, a, b) ==
    CASE fn = "add" -> a + b
      [] fn = "subtract" -> a - b
      [] fn = "multiply" -> a * b
      [] fn = "divide" -> TruncDiv(a, b)

\* Value::add / subtract / multiply / divide: fallible, numeric operands only;
\* divide-by-zero and overflow are errors of the typed domain.
Value_arith(fn, l, r) ==
    IF l.kind = "I64" /\ r.kind = "I64" THEN
        IF fn = "divide" /\ r.n = 0 THEN RErr("DivideByZero")
        ELSE IF ~InRange(Exact(fn, l.n, r.n)) THEN RErr("Overflow")
        ELSE ROk(I64(Exact(fn, l.n, r.n)))
    ELSE RErr("NonNumericArithmetic")

-----------------------------------------------------------------------------
(* Literal helpers                                                         *)

\* `a + b`, `a - b`, `a * b` on i64 followed by to_string: an overflow panics
\* when overflow checks are compiled in and wraps otherwise.
Arith(n) ==
    IF InRange(n) THEN ROk(Number(to_string(n)))
    ELSE IF overflow_checks THEN RPanic
    ELSE ROk(Number(to_string(Wrap(n))))

literal_add(a, b) ==
    IF a.kind = "Number" /\ b.kind = "Number" THEN
        IF ParseI64(a.text).ok /\ ParseI64(b.text).ok
        THEN Arith(ParseI64(a.text).n + ParseI64(b.text).n)
        ELSE RPanic
    ELSE RErr("UnreachableLiteralArithmetic")

\* Faulty variant of literal_subtract: only the left operand's kind is matched,
\* so a non-numeric right operand reaches the parse and panics.
literal_subtract_left_only(a, b) ==
    IF a.kind = "Number" THEN
        IF ParseI64(a.text).ok /\ ParseI64(b.text).ok
        THEN Arith(ParseI64(a.text).n - ParseI64(b.text).n)
        ELSE RPanic
    ELSE RErr("UnreachableLiteralArithmetic")

literal_subtract(a, b) ==
    IF a.kind = "Number" /\ b.kind = "Number" THEN
        IF ParseI64(a.text).ok /\ ParseI64(b.text).ok
        THEN Arith(ParseI64(a.text).n - ParseI64(b.text).n)
        ELSE RPanic
    ELSE RErr("UnreachableLiteralArithmetic")

literal_multiply(a, b) ==
    IF a.kind = "Number" /\ b.kind = "Number" THEN
        IF ParseI64(a.text).ok /\ ParseI64(b.text).ok
        THEN Arith(ParseI64(a.text).n * ParseI64(b.text).n)
        ELSE RPanic
    ELSE RErr("UnreachableLiteralArithmetic")

\* Division rounding toward negative infinity.
FloorDiv(a, b) ==
    IF TruncDiv(a, b) * b # a /\ ((a < 0) # (b < 0))
    THEN TruncDiv(a, b) - 1
    ELSE TruncDiv(a, b)

\* Faulty variant of literal_divide: the quotient is floored, not truncated.
literal_divide_floor(a, b) ==
    IF a.kind = "Number" /\ b.kind = "Number" THEN
        IF ParseI64(a.text).ok /\ ParseI64(b.text).ok THEN
            IF ParseI64(b.text).n = 0 THEN RPanic
            ELSE IF ParseI64(a.text).n = I64_MIN /\ ParseI64(b.text).n = -1 THEN RPanic
            ELSE ROk(Number(to_string(FloorDiv(ParseI64(a.text).n, ParseI64(b.text).n))))
        ELSE RPanic
    ELSE RErr("UnreachableLiteralArithmetic")

\* i64 `/` panics on a zero divisor and on MIN / -1 in every build profile.
literal_divide(a, b) ==
    IF a.kind = "Number" /\ b.kind = "Number" THEN
        IF ParseI64(a.text).ok /\ ParseI64(b.text).ok THEN
            IF ParseI64(b.text).n = 0 THEN RPanic
            ELSE IF ParseI64(a.text).n = I64_MIN /\ ParseI64(b.text).n = -1 THEN RPanic
            ELSE ROk(Number(to_string(TruncDiv(ParseI64(a.text).n, ParseI64(b.text).n))))
        ELSE RPanic
    ELSE RErr("UnreachableLiteralArithmetic")

literal_partial_cmp(a, b) ==
    CASE a.kind = "Number" /\ b.kind = "Number" ->
            IF ParseI64(a.text).ok /\ ParseI64(b.text).ok
            THEN IntCmp(ParseI64(a.text).n, ParseI64(b.text).n)
            ELSE "None"
      [] a.kind = "SingleQuotedString" /\ b.kind = "SingleQuotedString" ->
            StrCmp(a.text, b.text)
      [] OTHER -> "None"

-----------------------------------------------------------------------------
(* impl PartialEq for Evaluated                                            *)

\* AstValue == AstValue (derived): same kind, same text.
Ast_eq(l, r) == l = r

eq_ast(l, r) == IF l.kind = "SingleQuotedString" THEN l.text = r ELSE FALSE

eq_val(l, r) == IF l.kind = "Str" THEN l.text = r ELSE FALSE

\* match arm `LiteralRef(l) => match other { .. }`
eq_LiteralRef(l, other) ==
    LET r == other.v
    IN  CASE other.tag = "LiteralRef" -> Bool(Ast_eq(l, r))
          [] other.tag = "StringRef"  -> Bool(eq_ast(l, r.text))
          [] other.tag = "ValueRef"   -> Bool(Value_eq_ast(r, l))
          [] other.tag = "Value"      -> Bool(Value_eq_ast(r, l))
          [] other.tag = "Literal"    -> Panic

\* match arm `StringRef(l) => match other { .. }`
eq_StringRef(l, other) ==
    LET r == other.v
    IN  CASE other.tag = "LiteralRef" -> Bool(eq_ast(r, l.text))
          [] other.tag = "StringRef"  -> Bool(l.text = r.text)
          [] other.tag = "ValueRef"   -> Bool(eq_val(r, l.text))
          [] other.tag = "Value"      -> Bool(eq_val(r, l.text))
          [] other.tag = "Literal"    -> Bool(FALSE)

\* match arm `ValueRef(l) => match other { .. }`
eq_ValueRef(l, other) ==
    LET r == other.v
    IN  CASE other.tag = "LiteralRef" -> Bool(Value_eq_ast(l, r))
          [] other.tag = "Literal"    -> Bool(Value_eq_ast(l, r))
          [] other.tag = "StringRef"  -> Bool(eq_val(l, r.text))
          [] other.tag = "ValueRef"   -> Bool(Value_eq(l, r))
          [] other.tag = "Value"      -> Bool(Value_eq(l, r))

\* match arm `Value(l) => match other { .. }`
eq_Value(l, other) ==
    LET r == other.v
    IN  CASE other.tag = "LiteralRef" -> Bool(Value_eq_ast(l, r))
          [] other.tag = "StringRef"  -> Bool(eq_val(l, r.text))
          [] other.tag = "ValueRef"   -> Bool(Value_eq(l, r))
          [] other.tag = "Value"      -> Bool(Value_eq(l, r))
          [] other.tag = "Literal"    -> Panic

\* Faulty variant of eq_Literal: the StringRef arm is missing and falls into
\* the panicking catch-all.
eq_Literal_no_string(l, other) ==
    LET r == other.v
    IN  CASE other.tag = "ValueRef"   -> Bool(Value_eq_ast(r, l))
          [] OTHER                    -> Panic

\* match arm `Literal(l) => match other { .. }`
eq_Literal(l, other) ==
    LET r == other.v
    IN  CASE other.tag = "ValueRef"   -> Bool(Value_eq_ast(r, l))
          [] other.tag = "StringRef"  -> Bool(FALSE)
          [] OTHER                    -> Panic

eq(self, other) ==
    CASE self.tag = "LiteralRef" -> eq_LiteralRef(self.v, other)
      [] self.tag = "StringRef"  -> eq_StringRef(self.v, other)
      [] self.tag = "ValueRef"   -> eq_ValueRef(self.v, other)
      [] self.tag = "Value"      -> eq_Value(self.v, other)
      [] self.tag = "Literal"    -> eq_Literal(self.v, other)

-----------------------------------------------------------------------------
(* impl PartialOrd for Evaluated                                           *)

\* Option<Ordering> as an outcome.
Opt(o) == IF o = "None" THEN None ELSE Some(o)

\* Option::map(|o| o.reverse())
OptReverse(o) == IF o = "None" THEN None ELSE Some(Reverse(o))

\* Faulty variant of partial_cmp_LiteralRef: the typed arms forget `.reverse()`.
partial_cmp_LiteralRef_unreversed(l, other) ==
    LET r == other.v
    IN  CASE other.tag = "LiteralRef" -> Opt(literal_partial_cmp(l, r))
          [] other.tag = "ValueRef"   -> Opt(Value_partial_cmp_ast(r, l))
          [] other.tag = "Value"      -> Opt(Value_partial_cmp_ast(r, l))
          [] other.tag = "StringRef"  -> None
          [] other.tag = "Literal"    -> Panic

\* match arm `LiteralRef(l) => match other { .. }`
partial_cmp_LiteralRef(l, other) ==
    LET r == other.v
    IN  CASE other.tag = "LiteralRef" -> Opt(literal_partial_cmp(l, r))
          [] other.tag = "ValueRef"   -> OptReverse(Value_partial_cmp_ast(r, l))
          [] other.tag = "Value"      -> OptReverse(Value_partial_cmp_ast(r, l))
          [] other.tag = "StringRef"  -> None
          [] other.tag = "Literal"    -> Panic

\* match arm `ValueRef(l) => match other { .. }`
partial_cmp_ValueRef(l, other) ==
    LET r == other.v
    IN  CASE other.tag = "LiteralRef" -> Opt(Value_partial_cmp_ast(l, r))
          [] other.tag = "ValueRef"   -> Opt(Value_partial_cmp(l, r))
          [] other.tag = "Value"      -> Opt(Value_partial_cmp(l, r))
          [] other.tag = "StringRef"  ->
                IF l.kind = "Str" THEN Some(StrCmp(l.text, r.text)) ELSE None
          [] other.tag = "Literal"    -> Panic

\* match arm `Value(l) => match other { .. }`
partial_cmp_Value(l, other) ==
    LET r == other.v
    IN  CASE other.tag = "LiteralRef" -> Opt(Value_partial_cmp_ast(l, r))
          [] other.tag = "ValueRef"   -> Opt(Value_partial_cmp(l, r))
          [] other.tag = "Value"      -> Opt(Value_partial_cmp(l, r))
          [] other.tag = "StringRef"  ->
                IF l.kind = "Str" THEN Some(StrCmp(l.text, r.text)) ELSE None
          [] other.tag = "Literal"    -> Panic

\* match arm `StringRef(l) => match other { .. }`
partial_cmp_StringRef(l, other) ==
    LET r == other.v
    IN  CASE other.tag = "LiteralRef" -> None
          [] other.tag = "ValueRef" /\ r.kind = "Str" -> Some(StrCmp(l.text, r.text))
          [] other.tag = "Value" /\ r.kind = "Str"    -> Some(StrCmp(l.text, r.text))
          [] other.tag = "StringRef"  -> Some(StrCmp(l.text, r.text))
          [] other.tag = "Literal"    -> Panic
          [] OTHER                    -> None

partial_cmp(self, other) ==
    CASE self.tag = "LiteralRef" -> partial_cmp_LiteralRef(self.v, other)
      [] self.tag = "ValueRef"   -> partial_cmp_ValueRef(self.v, other)
      [] self.tag = "Value"      -> partial_cmp_Value(self.v, other)
      [] self.tag = "StringRef"  -> partial_cmp_StringRef(self.v, other)
      [] self.tag = "Literal"    -> Panic

-----------------------------------------------------------------------------
(* impl Evaluated: add, subtract, multiply, divide                         *)

\* the `unreachable` closure of each operator
unreachable == Ran(Err("UnreachableEvaluatedArithmetic"), <<>>)

\* literal_op(..).map(Evaluated::Literal)
MapLiteral(r) ==
    Ran(CASE r.kind = "Ok"    -> Ok(Literal(r.v))
          [] r.kind = "Err"   -> Err(r.err)
          [] r.kind = "Panic" -> Panic,
        <<>>)

\* Faulty variant of MapValue: the result is wrapped as the borrowed variant.
MapValue_borrowed(fn, x, y) ==
    Ran(IF Value_arith(fn, x, y).kind = "Ok"
        THEN Ok(ValueRef(Value_arith(fn, x, y).v))
        ELSE Err(Value_arith(fn, x, y).err),
        <<TypedCall(fn, x, y)>>)

\* x.fn(&y).map(Evaluated::Value)
MapValue(fn, x, y) ==
    Ran(IF Value_arith(fn, x, y).kind = "Ok"
        THEN Ok(Value(Value_arith(fn, x, y).v))
        ELSE Err(Value_arith(fn, x, y).err),
        <<TypedCall(fn, x, y)>>)

\* `t.clone_by(lit)?` followed by `then`, the typed operator applied to the
\* coerced value: a failed coercion returns its error and the typed operator
\* is never called.
CloneByThen(t, lit, then) ==
    IF clone_by(t, lit).kind = "Ok"
    THEN Ran(then.out, <<TypedCall("clone_by", t, lit)>> \o then.calls)
    ELSE Ran(Err(clone_by(t, lit).err), <<TypedCall("clone_by", t, lit)>>)

add_literal(l, other) ==
    LET r == other.v
    IN  CASE other.tag = "LiteralRef" -> MapLiteral(literal_add(l, r))
          [] other.tag = "Literal"    -> MapLiteral(literal_add(l, r))
          [] other.tag = "ValueRef"   -> CloneByThen(r, l, MapValue("add", r, clone_by(r, l).v))
          [] other.tag = "Value"      -> CloneByThen(r, l, MapValue("add", r, clone_by(r, l).v))
          [] other.tag = "StringRef"  -> unreachable

add_value(l, other) ==
    LET r == other.v
    IN  CASE other.tag = "LiteralRef" -> CloneByThen(l, r, MapValue("add", l, clone_by(l, r).v))
          [] other.tag = "Literal"    -> CloneByThen(l, r, MapValue("add", l, clone_by(l, r).v))
          [] other.tag = "ValueRef"   -> MapValue("add", l, r)
          [] other.tag = "Value"      -> MapValue("add", l, r)
          [] other.tag = "StringRef"  -> unreachable

add(self, other) ==
    CASE self.tag = "LiteralRef" -> add_literal(self.v, other)
      [] self.tag = "Literal"    -> add_literal(self.v, other)
      [] self.tag = "ValueRef"   -> add_value(self.v, other)
      [] self.tag = "Value"      -> add_value(self.v, other)
      [] self.tag = "StringRef"  -> unreachable

\* Faulty variant of subtract_literal: the typed arms are written like those of
\* add_literal, with the typed operand as the receiver.
subtract_literal_swapped(l, other) ==
    LET r == other.v
    IN  CASE other.tag = "LiteralRef" -> MapLiteral(literal_subtract(l, r))
          [] other.tag = "Literal"    -> MapLiteral(literal_subtract(l, r))
          [] other.tag = "ValueRef"   -> CloneByThen(r, l, MapValue("subtract", r, clone_by(r, l).v))
          [] other.tag = "Value"      -> CloneByThen(r, l, MapValue("subtract", r, clone_by(r, l).v))
          [] other.tag = "StringRef"  -> unreachable

subtract_literal(l, other) ==
    LET r == other.v
    IN  CASE other.tag = "LiteralRef" -> MapLiteral(literal_subtract(l, r))
          [] other.tag = "Literal"    -> MapLiteral(literal_subtract(l, r))
          [] other.tag = "ValueRef"   -> CloneByThen(r, l, MapValue("subtract", clone_by(r, l).v, r))
          [] other.tag = "Value"      -> CloneByThen(r, l, MapValue("subtract", clone_by(r, l).v, r))
          [] other.tag = "StringRef"  -> unreachable

subtract_value(l, other) ==
    LET r == other.v
    IN  CASE other.tag = "LiteralRef" -> CloneByThen(l, r, MapValue("subtract", l, clone_by(l, r).v))
          [] other.tag = "Literal"    -> CloneByThen(l, r, MapValue("subtract", l, clone_by(l, r).v))
          [] other.tag = "ValueRef"   -> MapValue("subtract", l, r)
          [] other.tag = "Value"      -> MapValue("subtract", l, r)
          [] other.tag = "StringRef"  -> unreachable

subtract(self, other) ==
    CASE self.tag = "LiteralRef" -> subtract_literal(self.v, other)
      [] self.tag = "Literal"    -> subtract_literal(self.v, other)
      [] self.tag = "ValueRef"   -> subtract_value(self.v, other)
      [] self.tag = "Value"      -> subtract_value(self.v, other)
      [] self.tag = "StringRef"  -> unreachable

\* Faulty variant of multiply_literal: a StringRef operand is treated as the
\* quoted literal it was taken from.
multiply_literal_string_as_literal(l, other) ==
    LET r == other.v
    IN  CASE other.tag = "LiteralRef" -> MapLiteral(literal_multiply(l, r))
          [] other.tag = "Literal"    -> MapLiteral(literal_multiply(l, r))
          [] other.tag = "ValueRef"   -> CloneByThen(r, l, MapValue("multiply", clone_by(r, l).v, r))
          [] other.tag = "Value"      -> CloneByThen(r, l, MapValue("multiply", clone_by(r, l).v, r))
          [] other.tag = "StringRef"  ->
                MapLiteral(literal_multiply(l, SingleQuotedString(r.text)))

multiply_literal(l, other) ==
    LET r == other.v
    IN  CASE other.tag = "LiteralRef" -> MapLiteral(literal_multiply(l, r))
          [] other.tag = "Literal"    -> MapLiteral(literal_multiply(l, r))
          [] other.tag = "ValueRef"   -> CloneByThen(r, l, MapValue("multiply", clone_by(r, l).v, r))
          [] other.tag = "Value"      -> CloneByThen(r, l, MapValue("multiply", clone_by(r, l).v, r))
          [] other.tag = "StringRef"  -> unreachable

multiply_value(l, other) ==
    LET r == other.v
    IN  CASE other.tag = "LiteralRef" -> CloneByThen(l, r, MapValue("multiply", l, clone_by(l, r).v))
          [] other.tag = "Literal"    -> CloneByThen(l, r, MapValue("multiply", l, clone_by(l, r).v))
          [] other.tag = "ValueRef"   -> MapValue("multiply", l, r)
          [] other.tag = "Value"      -> MapValue("multiply", l, r)
          [] other.tag = "StringRef"  -> unreachable

multiply(self, other) ==
    CASE self.tag = "LiteralRef" -> multiply_literal(self.v, other)
      [] self.tag = "Literal"    -> multiply_literal(self.v, other)
      [] self.tag = "ValueRef"   -> multiply_value(self.v, other)
      [] self.tag = "Value"      -> multiply_value(self.v, other)
      [] self.tag = "StringRef"  -> unreachable

divide_literal(l, other) ==
    LET r == other.v
    IN  CASE other.tag = "LiteralRef" -> MapLiteral(literal_divide(l, r))
          [] other.tag = "Literal"    -> MapLiteral(literal_divide(l, r))
          [] other.tag = "ValueRef"   -> CloneByThen(r, l, MapValue("divide", clone_by(r, l).v, r))
          [] other.tag = "Value"      -> CloneByThen(r, l, MapValue("divide", clone_by(r, l).v, r))
          [] other.tag = "StringRef"  -> unreachable

divide_value(l, other) ==
    LET r == other.v
    IN  CASE other.tag = "LiteralRef" -> CloneByThen(l, r, MapValue("divide", l, clone_by(l, r).v))
          [] other.tag = "Literal"    -> CloneByThen(l, r, MapValue("divide", l, clone_by(l, r).v))
          [] other.tag = "ValueRef"   -> MapValue("divide", l, r)
          [] other.tag = "Value"      -> MapValue("divide", l, r)
          [] other.tag = "StringRef"  -> unreachable

divide(self, other) ==
    CASE self.tag = "LiteralRef" -> divide_literal(self.v, other)
      [] self.tag = "Literal"    -> divide_literal(self.v, other)
      [] self.tag = "ValueRef"   -> divide_value(self.v, other)
      [] self.tag = "Value"      -> divide_value(self.v, other)
      [] self.tag = "StringRef"  -> unreachable

-----------------------------------------------------------------------------
(* The evaluator's calls                                                   *)

T(s) == <<s>>

\* Texts of the numeric literals the parser hands over: in-range integers,
\* an integer beyond the (scaled) i64 range, and a decimal.
NumberTexts == {T("0"), T("1"), T("2"), T("3"), T("5"), <<"1", "2">>, <<"1", ".", "5">>}

StringTexts == {T("a"), <<"a", "b">>}

TypedInts == {0, 2, I64_MAX}

\* Values the evaluator builds from leaves of the expression: literals of the
\* AST, inner texts of quoted literals, row cells, and freshly computed text.
Leaves ==
    {LiteralRef(Number(t)) : t \in NumberTexts}
        \cup {LiteralRef(SingleQuotedString(t)) : t \in StringTexts}
        \cup {LiteralRef(AstNull)}
        \cup {StringRef(t) : t \in StringTexts}
        \cup {ValueRef(I64(n)) : n \in TypedInts}
        \cup {ValueRef(Str(t)) : t \in StringTexts}
        \cup {Value(Str(T("a")))}

\* Sub-results the evaluator still holds: the operands of the last call and
\* what it returned. A panic unwinds the evaluation and drops them all.
Held ==
    IF out.kind = "Panic" THEN {}
    ELSE ({lhs, rhs} \ {NoEvaluated}) \cup (IF out.kind = "Ok" THEN {out.val} ELSE {})

Operands == Leaves \cup Held

\* What a register holds once the other one is being loaded.
Kept(e) == IF out.kind = "Panic" THEN NoEvaluated ELSE e

ArithOps == {"add", "subtract", "multiply", "divide"}

IsLiteralLike(e) == e.tag \in {"LiteralRef", "Literal"}

IsTypedLike(e) == e.tag \in {"ValueRef", "Value"}

Init ==
    /\ lhs = NoEvaluated
    /\ rhs = NoEvaluated
    /\ op = "none"
    /\ out = NotCalled
    /\ calls = <<>>
    /\ overflow_checks \in BOOLEAN

\* The evaluator reduces the left child of a binary node to a (a leaf, or a
\* result it holds) and moves it into place as `self`.
EvaluateLeft ==
    \E a \in Operands :
        /\ lhs' = a
        /\ rhs' = Kept(rhs)
        /\ op' = "none"
        /\ out' = NotCalled
        /\ calls' = <<>>
        /\ UNCHANGED overflow_checks

\* The same for the right child, `other`.
EvaluateRight ==
    \E b \in Operands :
        /\ rhs' = b
        /\ lhs' = Kept(lhs)
        /\ op' = "none"
        /\ out' = NotCalled
        /\ calls' = <<>>
        /\ UNCHANGED overflow_checks

\* The evaluator calls method `name` on the two operands, which runs as `ran`.
Call(name, ran) ==
    /\ lhs # NoEvaluated
    /\ rhs # NoEvaluated
    /\ op' = name
    /\ out' = ran.out
    /\ calls' = ran.calls
    /\ UNCHANGED <<lhs, rhs, overflow_checks>>

Eq == Call("eq", Ran(eq(lhs, rhs), <<>>))

PartialCmp == Call("partial_cmp", Ran(partial_cmp(lhs, rhs), <<>>))

Add == Call("add", add(lhs, rhs))

Subtract == Call("subtract", subtract(lhs, rhs))

Multiply == Call("multiply", multiply(lhs, rhs))

Divide == Call("divide", divide(lhs, rhs))

Next ==
    \/ EvaluateLeft
    \/ EvaluateRight
    \/ Eq
    \/ PartialCmp
    \/ Add
    \/ Subtract
    \/ Multiply
    \/ Divide

Spec == Init /\ [][Next]_vars

-----------------------------------------------------------------------------
(* Properties                                                              *)

Arithmetic == op \in ArithOps

BothLiteralLike == IsLiteralLike(lhs) /\ IsLiteralLike(rhs)

\* A zero-valued operand: a literal whose numeric text is "0", or a typed zero.
ZeroValued(e) ==
    \/ IsLiteralLike(e) /\ e.v = Number(T("0"))
    \/ IsTypedLike(e) /\ e.v = I64(0)

\* Both operands are numeric-text literals.
BothNumberLiterals == BothLiteralLike /\ lhs.v.kind = "Number" /\ rhs.v.kind = "Number"

X == ParseI64(lhs.v.text)
Y == ParseI64(rhs.v.text)

\* The quotient of x by y truncated toward zero, by its defining property:
\* x = q * y + r with |r| < |y| and r zero or of the sign of x.
Quotient(x, y) ==
    CHOOSE q \in (I64_MIN - 1)..(I64_MAX + 1) :
        \E r \in (1 - Abs(y))..(Abs(y) - 1) :
            /\ x = q * y + r
            /\ (r = 0 \/ ((r < 0) = (x < 0)))

\* The mathematical result of the last operator on x and y.
Expected(x, y) ==
    CASE op = "add" -> x + y
      [] op = "subtract" -> x - y
      [] op = "multiply" -> x * y
      [] op = "divide" -> Quotient(x, y)

\* The last call was arithmetic on two integer literals with an in-range result.
IntegerLiteralCase ==
    /\ Arithmetic
    /\ BothNumberLiterals
    /\ X.ok /\ Y.ok
    /\ (op = "divide" => Y.n # 0)
    /\ InRange(Expected(X.n, Y.n))

\* The literal operand and the typed operand of a mixed call.
MixedLT == Arithmetic /\ IsLiteralLike(lhs) /\ IsTypedLike(rhs)
MixedTL == Arithmetic /\ IsTypedLike(lhs) /\ IsLiteralLike(rhs)

\* What the typed domain's operator returns on x and y, as an outcome.
TypedResult(x, y) ==
    IF Value_arith(op, x, y).kind = "Ok"
    THEN Ok(Value(Value_arith(op, x, y).v))
    ELSE Err(Value_arith(op, x, y).err)

\* C1: divide(a, b) with b zero-valued and a literal-like or typed-like always
\* returns an error result: it neither panics nor returns a value.
C1_DivideByZeroIsError ==
    (op = "divide" /\ ZeroValued(rhs) /\ (IsLiteralLike(lhs) \/ IsTypedLike(lhs)))
        => out.kind = "Err"

\* C2: an arithmetic operator with a StringRef operand on either side returns
\* the error UnreachableEvaluatedArithmetic, whatever the other operand is.
C2_StringOperandUnreachable ==
    (Arithmetic /\ (lhs.tag = "StringRef" \/ rhs.tag = "StringRef"))
        => out = Err("UnreachableEvaluatedArithmetic")

C2_Witness ==
    /\ op = "divide"
    /\ lhs = LiteralRef(SingleQuotedString(T("a")))
    /\ rhs.tag = "StringRef"
    /\ out.kind = "Err"

\* C3: whenever eq(a, b) returns a boolean, eq(b, a) returns the same boolean
\* (and does not panic).
C3_EqSymmetric ==
    (op = "eq" /\ out.kind = "Bool") => eq(rhs, lhs) = out

C3_Witness ==
    /\ op = "eq"
    /\ lhs.tag = "Literal"
    /\ rhs.tag = "ValueRef"
    /\ out = Bool(TRUE)

\* C4: whenever partial_cmp(a, b) is Some(o), partial_cmp(b, a) is Some of the
\* reversed ordering (Less <-> Greater, Equal <-> Equal): neither None nor a panic.
C4_PartialCmpAntisymmetric ==
    (op = "partial_cmp" /\ out.kind = "Some")
        => partial_cmp(rhs, lhs) = Some(Reverse(out.ord))

C4_Witness ==
    /\ op = "partial_cmp"
    /\ lhs.tag = "LiteralRef"
    /\ rhs.tag = "ValueRef"
    /\ out = Some("Greater")

\* C5: arithmetic on two literal-like operands whose texts parse as integers x
\* and y, with an in-range result, returns an owned literal whose text is the
\* decimal rendering of x+y, x-y, x*y or x/y truncated toward zero, and builds
\* no typed value.
C5_LiteralArithmetic ==
    IntegerLiteralCase =>
        /\ out = Ok(Literal(Number(to_string(Expected(X.n, Y.n)))))
        /\ ParseI64(out.val.v.text) = [ok |-> TRUE, n |-> Expected(X.n, Y.n)]
        /\ calls = <<>>

\* 1 + (2 * 3): the owned "6" of the multiplication is the right operand and
\* the sum is the owned "7".
C5_Witness ==
    /\ op = "add"
    /\ lhs = LiteralRef(Number(T("1")))
    /\ rhs = Literal(Number(T("6")))
    /\ out = Ok(Literal(Number(T("7"))))
    /\ calls = <<>>

\* C6 as stated: with a literal L and a typed T, the coerced literal takes L's
\* place in the delegated typed call - op(L, T) calls op(coerce(L), T) and
\* op(T, L) calls op(T, coerce(L)).
C6_OperandOrderPreserved ==
    /\ (MixedLT /\ clone_by(rhs.v, lhs.v).kind = "Ok")
          => calls = <<TypedCall("clone_by", rhs.v, lhs.v),
                       TypedCall(op, clone_by(rhs.v, lhs.v).v, rhs.v)>>
    /\ (MixedTL /\ clone_by(lhs.v, rhs.v).kind = "Ok")
          => calls = <<TypedCall("clone_by", lhs.v, rhs.v),
                       TypedCall(op, lhs.v, clone_by(lhs.v, rhs.v).v)>>

\* C6 amended: a failed coercion is the result; otherwise the result is what
\* the delegated typed call returns. That call keeps the operand order -
\* op(coerce(L), T) for op(L, T) and op(T, coerce(L)) for op(T, L) - except for
\* add(L, T), which calls T.add(coerce(L)).
C6_SameResultAsTyped ==
    /\ MixedLT =>
          IF clone_by(rhs.v, lhs.v).kind = "Ok"
          THEN /\ out = (IF op = "add"
                         THEN TypedResult(rhs.v, clone_by(rhs.v, lhs.v).v)
                         ELSE TypedResult(clone_by(rhs.v, lhs.v).v, rhs.v))
               /\ calls = <<TypedCall("clone_by", rhs.v, lhs.v),
                            IF op = "add"
                            THEN TypedCall(op, rhs.v, clone_by(rhs.v, lhs.v).v)
                            ELSE TypedCall(op, clone_by(rhs.v, lhs.v).v, rhs.v)>>
          ELSE out = Err(clone_by(rhs.v, lhs.v).err)
    /\ MixedTL =>
          IF clone_by(lhs.v, rhs.v).kind = "Ok"
          THEN /\ out = TypedResult(lhs.v, clone_by(lhs.v, rhs.v).v)
               /\ calls = <<TypedCall("clone_by", lhs.v, rhs.v),
                            TypedCall(op, lhs.v, clone_by(lhs.v, rhs.v).v)>>
          ELSE out = Err(clone_by(lhs.v, rhs.v).err)

\* "3" - 2 with the literal on the left: 1, not -1.
C6_Witness ==
    /\ op = "subtract"
    /\ lhs = LiteralRef(Number(T("3")))
    /\ rhs = ValueRef(I64(2))
    /\ out = Ok(Value(I64(1)))

\* C7: a successful arithmetic result is Literal (owned) when both operands are
\* literal-like and Value (owned) when at least one is typed-like; never a
\* borrowed variant.
C7_ResultOwned ==
    (Arithmetic /\ out.kind = "Ok") =>
        out.val.tag = (IF BothLiteralLike THEN "Literal" ELSE "Value")

C7_Witness ==
    /\ op = "multiply"
    /\ lhs.tag = "LiteralRef"
    /\ rhs.tag = "ValueRef"
    /\ out.kind = "Ok"
    /\ out.val.tag = "Value"

\* C8: arithmetic on two literal-like operands of which at least one is not a
\* numeric-text literal returns the error UnreachableLiteralArithmetic.
C8_NonNumericLiteral ==
    (Arithmetic /\ BothLiteralLike /\ ~BothNumberLiterals)
        => out = Err("UnreachableLiteralArithmetic")

C8_Witness ==
    /\ op = "subtract"
    /\ lhs.tag = "Literal"
    /\ rhs = LiteralRef(SingleQuotedString(T("a")))
    /\ out = Err("UnreachableLiteralArithmetic")

\* C9: partial_cmp of a typed-like operand and a literal (LiteralRef or
\* Literal), in either position, is the typed domain's partial order of the
\* value against the literal, reversed when the literal is on the left; it
\* does not panic.
C9_TypedVsLiteralDelegates ==
    /\ (op = "partial_cmp" /\ IsTypedLike(lhs) /\ IsLiteralLike(rhs))
          => out = Opt(Value_partial_cmp_ast(lhs.v, rhs.v))
    /\ (op = "partial_cmp" /\ IsLiteralLike(lhs) /\ IsTypedLike(rhs))
          => out = OptReverse(Value_partial_cmp_ast(rhs.v, lhs.v))

\* C10: arithmetic on two numeric-text literals of which at least one does not
\* parse as an i64 returns an error result: it neither panics nor returns a value.
C10_UnparsableNumberIsError ==
    (Arithmetic /\ BothNumberLiterals /\ ~(X.ok /\ Y.ok)) => out.kind = "Err"

====
